---- MODULE Spec2Model ----
(***************************************************************************)
(* Model of reverse_patch: the exclusion-aware ReversePatch engine, its   *)
(* Rc shortcut and the ArgsKwargs argument container                      *)
(* (src/reverse_patch/reverse_patch_itself.py).                            *)
(*                                                                         *)
(* Objects are records [t, p, n]:                                          *)
(*   t = "module"  the testing module (real scope)                         *)
(*   t = "real"    the object the testing module defines at dotted path p  *)
(*   t = "bound"   the bound method (classmethod access) of the function   *)
(*                 defined at path p                                       *)
(*   t = "shadow"  the autospec stand-in mirroring path p; p = <<>> is the *)
(*                 mocked module                                           *)
(*   t = "fresh"   the n-th MagicMock() created by the engine, or the      *)
(*                 auto-vivified child of it at attribute path p           *)
(*   t = "builtin" an attribute the interpreter supplies (list.count, a    *)
(*                 stand-in's own __init__)                                *)
(*   t = "fake"    the FakeModule holder of the shadow patcher             *)
(*   t = "absent"  no attribute (AttributeError / patch DEFAULT)           *)
(*   t = "str"     a string of an include/exclude set, p its dot-separated *)
(*                 segments                                                *)
(***************************************************************************)
EXTENDS Integers, Sequences, FiniteSets, TLC

VARIABLES
    pc,             \* "new" | "idle" | "active" | "exited" | "exited_again" | "init_failed"
                    \* | "enter_failed" | "reentered" | "reenter_failed" | "reexited";
                    \* a stand-alone PatchLogger: "logging" | "logged_out"
    variant,        \* "ReversePatch" | "Rc" | "Rcl"
    func,           \* self._func
    include_set,    \* self._include_set
    exclude_set,    \* self._exclude_set
    exclusion_sets, \* the six derived sets of _init_exclusions
    heap,           \* attribute bindings that differ from the module as imported
    patchers,       \* self._patchers
    nxt,            \* number of MagicMock() objects created so far
    rp,             \* the DTO returned by __enter__
    raised,         \* the exception that reached the caller ("" if none)
    exit_log,       \* indices of self._patchers in the order __exit__ reversed them
    pre,            \* the real scope when __enter__ was called
    chain,          \* the local patching_list of __enter__
    ak,             \* a stand-alone ArgsKwargs
    ak_names,       \* the names passed to its add_argument, in call order
    ak_set,         \* the last attribute assignment to it, if it is the last operation
    patch_logger_manager,  \* Rcl._patch_logger_manager: the entered PatchLogger, if any
    exit_exc,       \* the exception information the last __exit__ call was given
    log_call,       \* the last call through a leveled method of a patched logger
    second          \* a second session against the same testing module

vars == <<pc, variant, func, include_set, exclude_set, exclusion_sets, heap,
          patchers, nxt, rp, raised, exit_log, pre, chain, ak, ak_names, ak_set,
          patch_logger_manager, exit_exc, log_call, second>>

\* ---------------------------------------------------------------- bounds
MaxInclude == 1
MaxExclude == 1
MaxArgs == 3
MaxLog == 2

\* ---------------------------------------------------------------- objects
V(t, p, n) == [t |-> t, p |-> p, n |-> n]
Absent == V("absent", <<>>, 0)
Module == V("module", <<>>, 0)
FakeModule == V("fake", <<>>, 0)
Real(p) == V("real", p, 0)
Bound(p) == V("bound", p, 0)
Shadow(p) == V("shadow", p, 0)
Fresh(n) == V("fresh", <<>>, n)
Builtin(p) == V("builtin", p, 0)
Str(p) == V("str", p, 0)

\* no exception raised
NoError == ""

Range(s) == {s[i] : i \in DOMAIN s}
Front(s) == SubSeq(s, 1, Len(s) - 1)
Last(s) == s[Len(s)]

\* ---------------------------------------------------------------- the testing module
\* What the testing module defines: dotted path -> kind of object.
Def ==
    (<<"__name__">> :> "const") @@
    (<<"logging">> :> "module") @@
    (<<"logger">> :> "const") @@
    (<<"MODULE_CONST">> :> "const") @@
    (<<"failed_function">> :> "function") @@
    (<<"success_function">> :> "function") @@
    (<<"free_self">> :> "function") @@
    (<<"kwonly_function">> :> "function") @@
    (<<"FirstClass">> :> "class") @@
    (<<"FirstClass", "failed_method">> :> "function") @@
    (<<"FirstClass", "success_method">> :> "function") @@
    (<<"FirstClass", "success_class_method">> :> "function") @@
    (<<"FirstClass", "class_method_cls">> :> "function") @@
    (<<"FirstClass", "SecondClass">> :> "class") @@
    (<<"FirstClass", "SecondClass", "second_success_method">> :> "function") @@
    (<<"InitCase">> :> "class") @@
    (<<"InitCase", "__init__">> :> "function") @@
    (<<"InitCase", "use_attrs_inited_in__init">> :> "function") @@
    (<<"SomeException">> :> "exception") @@
    (<<"BaseExc">> :> "baseexception")

\* testing_module.__dict__ in definition order
ModuleOrder ==
    <<"__name__", "logging", "logger", "MODULE_CONST", "failed_function", "success_function",
      "free_self", "kwonly_function", "FirstClass", "InitCase", "SomeException",
      "BaseExc">>

\* names the sessions may create in the module
ExtraNames == {"id", "type", "NoSuch"}
TopNames == Range(ModuleOrder) \cup ExtraNames

\* declared parameter names of the functions of the testing module
Sig ==
    (<<"failed_function">> :> <<"x">>) @@
    (<<"success_function">> :> <<"x">>) @@
    (<<"free_self">> :> <<"self", "x">>) @@
    (<<"kwonly_function">> :> <<"x", "y">>) @@
    (<<"FirstClass", "failed_method">> :> <<"self", "x", "y">>) @@
    (<<"FirstClass", "success_method">> :> <<"self", "method_argument">>) @@
    (<<"FirstClass", "success_class_method">> :> <<"cls", "class_method_argument">>) @@
    (<<"FirstClass", "class_method_cls">> :> <<"klass", "cls">>) @@
    (<<"FirstClass", "SecondClass", "second_success_method">> :> <<"self", "method_argument">>) @@
    (<<"InitCase", "__init__">> :> <<"self", "x", "y">>) @@
    (<<"InitCase", "use_attrs_inited_in__init">> :> <<"self">>)

\* keyword-only parameters: def kwonly_function(x, *, y)
KwOnly(p) == IF p = <<"kwonly_function">> THEN {"y"} ELSE {}

ClassKinds == {"class", "exception", "baseexception"}

\* the methods of the module's logger that PatchLogger replaces, in its order
LoggerMethods == <<"debug", "info", "error", "warning", "critical">>

IsDefined(p) == p \in DOMAIN Def
KindOf(v) == IF v.t \in {"real", "shadow", "bound"} /\ IsDefined(v.p) THEN Def[v.p] ELSE "none"

\* ---------------------------------------------------------------- attribute access
Loc(o, a) == [o |-> o, a |-> a]

\* getattr(o, a) under the bindings h; Absent stands for AttributeError
Getattr(h, o, a) ==
    IF Loc(o, a) \in DOMAIN h THEN h[Loc(o, a)]
    ELSE CASE o.t = "module" ->
                IF IsDefined(<<a>>) THEN Real(<<a>>) ELSE Absent
           [] o.t = "real" ->
                IF KindOf(o) \in ClassKinds /\ IsDefined(o.p \o <<a>>)
                THEN Real(o.p \o <<a>>)
                ELSE IF o.p = <<"logger">> /\ a \in Range(LoggerMethods)
                     THEN Builtin(o.p \o <<a>>) ELSE Absent
           [] o.t = "shadow" ->
                IF o.p # <<>> /\ KindOf(o) \in ClassKinds /\ a = "__init__"
                THEN Builtin(o.p \o <<a>>)
                ELSE IF (o.p = <<>> \/ KindOf(o) \in ClassKinds) /\ IsDefined(o.p \o <<a>>)
                     THEN Shadow(o.p \o <<a>>) ELSE Absent
           [] o.t = "fresh" -> V("fresh", o.p \o <<a>>, o.n)
           [] o.t = "fake" -> IF a = "tm" THEN Module ELSE Absent
           [] OTHER -> Absent

RECURSIVE GetattrByPath(_, _, _)
GetattrByPath(h, obj, path) ==
    IF path = <<>> THEN obj
    ELSE GetattrByPath(h, Getattr(h, obj, Head(path)), Tail(path))

\* isinstance(v, Mock): MagicMock yes, NonCallableMagicMock (autospec of a
\* non-callable) no
IsMock(v) ==
    \/ v.t = "fresh"
    \/ v.t = "shadow" /\ v.p # <<>>
         /\ (KindOf(v) \in ClassKinds \cup {"function"} \/ Last(v.p) = "__name__")

\* any stand-in, callable or not
IsStandIn(v) == v.t \in {"shadow", "fresh"}

\* a check that recognises no exception class
IsExceptionClassNever(v) == FALSE

\* inspect.isclass(v) and issubclass(v, Exception)
IsExceptionClass(v) == v.t = "real" /\ KindOf(v) = "exception"

\* ---------------------------------------------------------------- ArgsKwargs
\* attributes every list has: normal lookup finds them before __getattr__
ListAttrs == {"count", "index", "append", "add_argument", "_index_map"}

EmptyMap == [k \in {} |-> k]

\* ArgsKwargs(): the list, self._index_map, and the other instance attributes
ArgsKwargs == [vals |-> <<>>, index_map |-> EmptyMap, attrs |-> EmptyMap]

\* ArgsKwargs.add_argument
add_argument(a, argument_name, argument_value) ==
    [a EXCEPT !.vals = Append(a.vals, argument_value),
              !.index_map = (argument_name :> Cardinality(DOMAIN a.index_map)) @@ a.index_map]

\* list.__getitem__ with a 0-based index
getitem(a, i) == a.vals[i + 1]

\* attribute read a.<item>: normal lookup, then ArgsKwargs.__getattr__
getattr_args(a, item) ==
    IF item \in DOMAIN a.attrs THEN a.attrs[item]
    ELSE IF item \in ListAttrs THEN Builtin(<<"list", item>>)
    ELSE IF item \in DOMAIN a.index_map /\ a.index_map[item] < Len(a.vals)
         THEN getitem(a, a.index_map[item])
         ELSE Absent

\* dir(self): the attributes normal lookup finds
dir_args(a) == ListAttrs \cup DOMAIN a.attrs

\* ArgsKwargs.__setattr__: a.<key> = value
setattr_args(a, key, value) ==
    IF key \notin dir_args(a)
    THEN IF key \in DOMAIN a.index_map
         THEN [a |-> [a EXCEPT !.vals[a.index_map[key] + 1] = value], err |-> NoError]
         ELSE [a |-> a, err |-> "KeyError"]
    ELSE [a |-> [a EXCEPT !.attrs = (key :> value) @@ a.attrs], err |-> NoError]

\* ---------------------------------------------------------------- the result bundles
\* Python's None
None == V("none", <<>>, 0)

\* getattr(args, item, default)
getattr_default(a, item, default) ==
    IF getattr_args(a, item) = Absent THEN default ELSE getattr_args(a, item)

\* a destructuring whose last element is always None
ReversePatchDTO_iter_NoBinding(dto) == <<dto, dto.c, dto.args, None>>

\* ReversePatchDTO.__iter__
ReversePatchDTO_iter(dto) ==
    <<dto, dto.c, dto.args,
      getattr_default(dto.args, "self", getattr_default(dto.args, "cls", None))>>

\* a destructuring that yields the result last
ResultReversePatchDTO_iter_ResultLast(dto) == ReversePatchDTO_iter(dto) \o <<dto.r>>

\* ResultReversePatchDTO.__iter__
ResultReversePatchDTO_iter(dto) == <<dto.r>> \o ReversePatchDTO_iter(dto)

\* ---------------------------------------------------------------- the target callable
\* inspect.ismethod(func)
is_class_method(class_method) == class_method.t = "bound"

\* func.__qualname__ as its segments
Qualname(f) == f.p

\* list(inspect.signature(func).parameters): a bound method hides its first parameter
SignatureParams(f) ==
    IF f.t = "real" /\ f.p \in DOMAIN Sig THEN Sig[f.p]
    ELSE IF f.t = "bound" /\ f.p \in DOMAIN Sig THEN Tail(Sig[f.p])
    ELSE <<"args", "kwargs">>

\* getattr(func, '__func__')
UnderlyingFunc(f) == Real(f.p)

\* ReversePatch.get_patching_list: one stand-in per enclosing segment
RECURSIVE WalkChain(_, _, _)
WalkChain(h, current_object, names) ==
    IF names = <<>> THEN <<>>
    ELSE LET nextobj == Getattr(h, current_object, Head(names))
         IN  <<nextobj>> \o WalkChain(h, nextobj, Tail(names))

\* a chain that keeps the final segment of the qualified name
get_patching_list_whole_path(h, test_method, mock_module) ==
    WalkChain(h, mock_module, Qualname(test_method))

get_patching_list(h, test_method, mock_module) ==
    WalkChain(h, mock_module, Front(Qualname(test_method)))

\* patching_list[0]
ChainFirst(patching_list) == patching_list[1]

\* patching_list[-1]
ChainLast(patching_list) == Last(patching_list)

\* one fresh MagicMock() per parameter, `self` taking the chain's last entry
\* when bind_self holds
RECURSIVE BindParams(_, _, _, _, _)
BindParams(a, params, patching_list, bind_self, n) ==
    IF params = <<>> THEN [args |-> a, nxt |-> n]
    ELSE IF bind_self /\ Len(patching_list) > 0 /\ Head(params) = "self"
         THEN BindParams(add_argument(a, Head(params), ChainLast(patching_list)),
                         Tail(params), patching_list, bind_self, n)
         ELSE BindParams(add_argument(a, Head(params), Fresh(n + 1)),
                         Tail(params), patching_list, bind_self, n + 1)

\* ReversePatch._get_args_and_callable; n is the number of mocks created so far
get_args_and_callable(f, patching_list, n) ==
    LET params == SignatureParams(f) IN
    IF is_class_method(f)
    THEN LET a0 == IF Len(patching_list) > 0
                   THEN add_argument(ArgsKwargs, "cls", ChainLast(patching_list))
                   ELSE ArgsKwargs
             b == BindParams(a0, params, patching_list, FALSE, n)
         IN  [args |-> b.args, c |-> UnderlyingFunc(f), nxt |-> b.nxt]
    ELSE LET b == BindParams(ArgsKwargs, params, patching_list, TRUE, n)
         IN  [args |-> b.args, c |-> f, nxt |-> b.nxt]

\* the call c(*values) raises TypeError unless the values fit the positional
\* parameters c declares
CallFits(c, values) ==
    KwOnly(c.p) = {} /\ Len(values) = Len(SignatureParams(c))

\* the call c(*values): the parameter each value is bound to
CallBinding(c, values) ==
    [i \in 1..Len(values) |-> [name |-> SignatureParams(c)[i], value |-> values[i]]]

\* ---------------------------------------------------------------- the substitution primitive
\* An entry in progress: bindings, applied patchers, mocks created, the error
\* raised so far ("" if none) and the exclusions built so far.

\* attribute in target.__dict__
InDict(h, target, attribute) ==
    IF target.t \in {"module", "fake"} \/ (target.t = "real" /\ KindOf(target) \in ClassKinds)
    THEN Getattr(h, target, attribute) # Absent
    ELSE IF target.t = "real"
    THEN Loc(target, attribute) \in DOMAIN h
         /\ h[Loc(target, attribute)] \notin {Absent, Getattr(EmptyMap, target, attribute)}
    ELSE Loc(target, attribute) \in DOMAIN h /\ h[Loc(target, attribute)] # Absent

\* patcher = patch.object(target, attribute, new, create=create);
\* patcher.__enter__(); self._patchers.append(patcher)
PatchObject(st, target, attribute, new, create) ==
    LET original == Getattr(st.heap, target, attribute) IN
    IF st.err # NoError THEN st
    ELSE IF original = Absent /\ ~create THEN [st EXCEPT !.err = "AttributeError"]
    ELSE [st EXCEPT
            !.heap = (Loc(target, attribute) :> new) @@ @,
            !.patchers = Append(@, [target |-> target, attribute |-> attribute,
                                    new |-> new, temp_original |-> original,
                                    is_local |-> InDict(st.heap, target, attribute),
                                    create |-> create, started |-> TRUE])]

\* the same with a new MagicMock() as the replacement
PatchObjectDefault(st, target, attribute, create) ==
    LET st1 == PatchObject(st, target, attribute, Fresh(st.nxt + 1), create) IN
    IF st1.err # NoError THEN st1 ELSE [st1 EXCEPT !.nxt = @ + 1]

\* a patcher exit that restores saved originals but never deletes what it created
PatcherExitKeepsCreated(h, patcher) ==
    IF patcher.temp_original # Absent
    THEN (Loc(patcher.target, patcher.attribute) :> patcher.temp_original) @@ h
    ELSE h

\* patcher.__exit__(): undo one substitution
PatcherExit(h, patcher) ==
    LET loc == Loc(patcher.target, patcher.attribute) IN
    IF patcher.is_local /\ patcher.temp_original # Absent
    THEN (loc :> patcher.temp_original) @@ h
    ELSE IF ~patcher.create
         THEN (loc :> patcher.temp_original) @@ h
         ELSE (loc :> Absent) @@ h

\* ---------------------------------------------------------------- ReversePatch.__init__
IsString(e) == e.t = "str"
HasDot(e) == Len(e.p) > 1
FirstSegment(e) == Str(<<Head(e.p)>>)

\* a lookup that finds a qualified name on every object
HasQualnameAlways(o) == TRUE

\* getattr(exclude_object, '__qualname__', None): functions and classes have one
HasQualname(o) == o.t \in {"real", "bound"} /\ KindOf(o) \in ClassKinds \cup {"function"}

\* ReversePatch._get_exclude_object_path (for objects that have a qualified name)
get_exclude_object_path(exclude_object) == Str(exclude_object.p)

NoExclusions ==
    [exclude_identifier_set |-> {}, exclude_path_set |-> {},
     exclude_first_path_identifier_set |-> {}, exclude_object_set |-> {},
     exclude_object_path_set |-> {},
     exclude_first_object_path_identifier_set |-> {}]

\* exclusions that take every string for a bare identifier
init_exclusions_strings_as_identifiers(exc) ==
    LET exclude_object_set == {e \in exc : ~IsString(e)}
        exclude_object_path_set == {get_exclude_object_path(o) : o \in exclude_object_set}
    IN  [exclude_identifier_set |-> {e \in exc : IsString(e)},
         exclude_path_set |-> {},
         exclude_first_path_identifier_set |-> {},
         exclude_object_set |-> exclude_object_set,
         exclude_object_path_set |-> exclude_object_path_set,
         exclude_first_object_path_identifier_set |->
             {FirstSegment(e) : e \in exclude_object_path_set}]

\* exclusions that keep the paths but forget their first segments
init_exclusions_no_first_segments(exc) ==
    LET exclude_path_set == {e \in exc : IsString(e) /\ HasDot(e)}
        exclude_object_set == {e \in exc : ~IsString(e)}
        exclude_object_path_set == {get_exclude_object_path(o) : o \in exclude_object_set}
    IN  [exclude_identifier_set |-> {e \in exc : IsString(e) /\ ~HasDot(e)},
         exclude_path_set |-> exclude_path_set,
         exclude_first_path_identifier_set |-> {},
         exclude_object_set |-> exclude_object_set,
         exclude_object_path_set |-> exclude_object_path_set,
         exclude_first_object_path_identifier_set |-> {}]

\* ReversePatch._init_exclusions
init_exclusions(exc) ==
    LET exclude_path_set == {e \in exc : IsString(e) /\ HasDot(e)}
        exclude_object_set == {e \in exc : ~IsString(e)}
        exclude_object_path_set == {get_exclude_object_path(o) : o \in exclude_object_set}
    IN  [exclude_identifier_set |-> {e \in exc : IsString(e) /\ ~HasDot(e)},
         exclude_path_set |-> exclude_path_set,
         exclude_first_path_identifier_set |-> {FirstSegment(e) : e \in exclude_path_set},
         exclude_object_set |-> exclude_object_set,
         exclude_object_path_set |-> exclude_object_path_set,
         exclude_first_object_path_identifier_set |->
             {FirstSegment(e) : e \in exclude_object_path_set}]

\* a class without a baked-in include
DefaultIncludeSetEmpty == {}

\* the class attribute ReversePatch._include_set
DefaultIncludeSet == {Str(<<"id">>)}

\* ---------------------------------------------------------------- ReversePatch.__enter__
\* a prefix test that matches no name
DunderNamesNone == {}

\* identifier.startswith('__')
DunderNames == {"__name__", "__init__"}

ExtraOrder == <<"id", "type", "NoSuch">>

\* list(testing_module.__dict__.copy()): the names the module binds now
DictNames(h) ==
    SelectSeq(ModuleOrder \o ExtraOrder, LAMBDA nm : Getattr(h, Module, nm) # Absent)

\* getattr(patching_list[0], '_mock_name')
MockName(v) == IF v.t = "shadow" /\ v.p # <<>> THEN Last(v.p) ELSE ""

\* a module pass without the two skips that protect the target
PatchModuleIdentifierNoTargetSkip(st, f, inc, es, patching_list, identifier, mocked_module) ==
    LET identifier_value == Getattr(st.heap, Module, identifier)
        all_exclude == es.exclude_identifier_set
                       \cup es.exclude_first_path_identifier_set
                       \cup es.exclude_first_object_path_identifier_set
    IN  IF Str(<<identifier>>) \in all_exclude THEN st
        ELSE IF identifier \in DunderNames /\ Str(<<identifier>>) \notin inc THEN st
        ELSE IF IsMock(identifier_value) THEN st
        ELSE IF IsExceptionClass(identifier_value) THEN st
        ELSE IF Getattr(st.heap, mocked_module, identifier) = Absent
             THEN [st EXCEPT !.err = "AttributeError"]
             ELSE PatchObject(st, Module, identifier,
                              Getattr(st.heap, mocked_module, identifier), FALSE)

\* one iteration of the loop of _patch_module_identifiers
PatchModuleIdentifier(st, f, inc, es, patching_list, identifier, mocked_module) ==
    LET identifier_value == Getattr(st.heap, Module, identifier)
        all_exclude == es.exclude_identifier_set
                       \cup es.exclude_first_path_identifier_set
                       \cup es.exclude_first_object_path_identifier_set
    IN  IF Str(<<identifier>>) \in all_exclude THEN st
        ELSE IF identifier \in DunderNames /\ Str(<<identifier>>) \notin inc THEN st
        ELSE IF identifier_value = f THEN st
        ELSE IF IsMock(identifier_value) THEN st
        ELSE IF IsExceptionClass(identifier_value) THEN st
        ELSE IF Len(patching_list) > 0 /\ identifier = MockName(patching_list[1]) THEN st
        ELSE IF Getattr(st.heap, mocked_module, identifier) = Absent
             THEN [st EXCEPT !.err = "AttributeError"]
             ELSE PatchObject(st, Module, identifier,
                              Getattr(st.heap, mocked_module, identifier), FALSE)

RECURSIVE PatchModuleLoop(_, _, _, _, _, _, _)
PatchModuleLoop(st, f, inc, es, patching_list, names, mocked_module) ==
    IF names = <<>> \/ st.err # NoError THEN st
    ELSE PatchModuleLoop(
            PatchModuleIdentifier(st, f, inc, es, patching_list, Head(names), mocked_module),
            f, inc, es, patching_list, Tail(names), mocked_module)

\* ReversePatch._patch_module_identifiers
patch_module_identifiers(st, f, inc, es, patching_list, mocked_module) ==
    PatchModuleLoop(st, f, inc, es, patching_list, DictNames(st.heap), mocked_module)

\* precedence that forgets the dotted-path excludes
IncludeMinusIdentifiersOnly(inc, es) == inc \ es.exclude_identifier_set

\* an include set that the excludes do not reduce
IncludeIgnoringExcludes(inc, es) == inc

\* the include set after precedence (lines 462-464)
PostPrecedenceInclude(inc, es) ==
    inc \ (es.exclude_identifier_set \cup es.exclude_path_set \cup es.exclude_object_path_set)

\* an include step that applies the exception-class skip of the module pass
PatchIncludeSkippingExceptions(st, identifier_path) ==
    LET parent == GetattrByPath(st.heap, Module, Front(identifier_path.p))
        leaf == Last(identifier_path.p)
    IN  IF parent = Absent THEN [st EXCEPT !.err = "AttributeError"]
        ELSE IF IsMock(Getattr(st.heap, parent, leaf)) THEN st
        ELSE IF IsExceptionClass(Getattr(st.heap, parent, leaf)) THEN st
        ELSE PatchObjectDefault(st, parent, leaf, TRUE)

\* one iteration of the loop of _patch_include_set
PatchInclude(st, identifier_path) ==
    LET parent == GetattrByPath(st.heap, Module, Front(identifier_path.p))
        leaf == Last(identifier_path.p)
    IN  IF parent = Absent THEN [st EXCEPT !.err = "AttributeError"]
        ELSE IF IsMock(Getattr(st.heap, parent, leaf)) THEN st
        ELSE PatchObjectDefault(st, parent, leaf, TRUE)

\* ReversePatch._patch_include_set, the set iterated in the order `order`
RECURSIVE patch_include_set(_, _)
patch_include_set(st, order) ==
    IF order = <<>> \/ st.err # NoError THEN st
    ELSE patch_include_set(PatchInclude(st, Head(order)), Tail(order))

\* an exclusion bound to no chain
ExclusionChainEmpty(parent_object) == <<>>

\* patching_list=[parent_object] (line 344)
ExclusionChain(parent_object) == <<parent_object>>

\* the walk of one exclude path against the shadow (lines 323-354);
\* idx is the 0-based position in exclude_identifiers
RECURSIVE ExcludeWalk(_, _, _, _, _, _, _)
ExcludeWalk(st, exclude_path, exclude_object, exclude_identifiers, idx, parent_object, patching_list) ==
    IF idx >= Len(exclude_identifiers) \/ st.err # NoError THEN st
    ELSE
      LET exclude_identifier == exclude_identifiers[idx + 1]
          current_object == Getattr(st.heap, parent_object, exclude_identifier)
          exclusion_dto == get_args_and_callable(exclude_object, ExclusionChain(parent_object), st.nxt)
          dto == [args |-> exclusion_dto.args, c |-> exclusion_dto.c]
          st1 ==
            IF Len(patching_list) > idx /\ patching_list[idx + 1] = current_object
            THEN st
            ELSE IF idx < Len(exclude_identifiers) - 1
            THEN PatchObject(st, parent_object, exclude_identifier, current_object, FALSE)
            ELSE IF exclude_identifier = "__init__"
            THEN PatchObject(
                    [st EXCEPT !.nxt = exclusion_dto.nxt,
                               !.exclusions = (exclude_object :> dto) @@ (exclude_path :> dto) @@ @],
                    parent_object, "m" \o exclude_identifier, exclude_object, TRUE)
            ELSE PatchObject(st, parent_object, exclude_identifier, exclude_object, FALSE)
      IN  IF current_object = Absent THEN [st EXCEPT !.err = "AttributeError"]
          ELSE ExcludeWalk(st1, exclude_path, exclude_object, exclude_identifiers, idx + 1,
                           current_object, patching_list)

\* one iteration of the loop over all_exclude_set (lines 309-354)
ExcludeOne(st, exclude_path, patching_list, mocked_module) ==
    LET exclude_object == GetattrByPath(st.heap, Module, exclude_path.p) IN
    IF exclude_object = Absent THEN [st EXCEPT !.err = "AttributeError"]
    ELSE IF Len(exclude_path.p) < 2 THEN [st EXCEPT !.err = "ValueError"]
    ELSE IF Len(patching_list) > 0
         THEN ExcludeWalk(st, exclude_path, exclude_object, exclude_path.p, 0,
                          mocked_module, patching_list)
         ELSE st

RECURSIVE ExcludeLoop(_, _, _, _)
ExcludeLoop(st, order, patching_list, mocked_module) ==
    IF order = <<>> \/ st.err # NoError THEN st
    ELSE ExcludeLoop(ExcludeOne(st, Head(order), patching_list, mocked_module),
                     Tail(order), patching_list, mocked_module)

\* all_exclude_set (line 307)
AllExcludeSet(es) == es.exclude_path_set \cup es.exclude_object_path_set

\* the enumerations of a set: the orders a set iteration may take
Orders(S) == {o \in [1..Cardinality(S) -> S] : Range(o) = S}

\* ReversePatch.__enter__ up to and including _patch_module_identifiers
\* (lines 288-304), from bindings h with n mocks created and ps already in
\* self._patchers
enter_prefix(h, ps, n, f, inc, es) ==
    LET st0 == [heap |-> h, patchers |-> ps, nxt |-> n, err |-> NoError, exclusions |-> EmptyMap]
        st1 == PatchObject(st0, FakeModule, "tm", Shadow(<<>>), FALSE)
        mocked_module == st1.heap[Loc(FakeModule, "tm")]
        patching_list == get_patching_list(st1.heap, f, mocked_module)
        args_kwargs_dto == get_args_and_callable(f, patching_list, st1.nxt)
        st2 == IF Absent \in Range(patching_list)
               THEN [st1 EXCEPT !.err = "AttributeError"]
               ELSE [st1 EXCEPT !.nxt = args_kwargs_dto.nxt]
    IN  [st |-> patch_module_identifiers(st2, f, inc, es, patching_list, mocked_module),
         patching_list |-> patching_list,
         mocked_module |-> mocked_module,
         args |-> args_kwargs_dto.args, c |-> args_kwargs_dto.c]

\* the rest of ReversePatch.__enter__ after _patch_include_set has left st:
\* the exclude loop, iterated in the order given, and the DTO returned
enter_excludes(p, st, exclude_order) ==
    LET st5 == ExcludeLoop(st, exclude_order, p.patching_list, p.mocked_module)
    IN  [st |-> st5, patching_list |-> p.patching_list,
         dto |-> [args |-> p.args, c |-> p.c, exclusions |-> st5.exclusions]]

\* every outcome ReversePatch.__enter__ can have, over the orders in which the
\* include set and the exclude set may be iterated
EnterOutcomes(h, ps, n, f, inc, es) ==
    LET p == enter_prefix(h, ps, n, f, inc, es)
        included == {patch_include_set(p.st, io) : io \in Orders(PostPrecedenceInclude(inc, es))}
    IN  {enter_excludes(p, st, eo) : st \in included, eo \in Orders(AllExcludeSet(es))}

\* ---------------------------------------------------------------- ReversePatch.__exit__
\* the patchers in application order
ForwardOrder(ps) == [i \in 1..Len(ps) |-> i]

\* reversed(self._patchers) as indices
ReversedOrder(ps) == [i \in 1..Len(ps) |-> Len(ps) - i + 1]

\* for patcher in reversed(self._patchers): patcher.__exit__(...);
\* x carries the bindings and the indices exited so far
RECURSIVE ExitLoop(_, _, _)
ExitLoop(x, ps, order) ==
    IF order = <<>> THEN x
    ELSE ExitLoop([heap |-> PatcherExit(x.heap, ps[Head(order)]),
                   log |-> Append(x.log, Head(order))], ps, Tail(order))

\* ReversePatch.__exit__: the bindings it leaves and the order it exited the
\* patchers in
exit(h, ps) == ExitLoop([heap |-> h, log |-> <<>>], ps, ReversedOrder(ps))

\* the same loop with what an exited patcher does: its __exit__ raises, which
\* ends the loop
RECURSIVE ExitLoopStarted(_, _, _)
ExitLoopStarted(x, ps, order) ==
    IF order = <<>> THEN x
    ELSE IF ~ps[Head(order)].started THEN [x EXCEPT !.err = "AttributeError"]
    ELSE ExitLoopStarted([heap |-> PatcherExit(x.heap, ps[Head(order)]),
                          log |-> Append(x.log, Head(order)), err |-> NoError],
                         ps, Tail(order))

\* an __exit__ that reverses nothing
exit_started_nothing(h, ps) == [heap |-> h, log |-> <<>>, err |-> NoError]

\* ReversePatch.__exit__ over patchers of which some have exited before
exit_started(h, ps) ==
    ExitLoopStarted([heap |-> h, log |-> <<>>, err |-> NoError], ps, ReversedOrder(ps))

\* the patchers after __exit__ went through them: an exited patcher no longer
\* has the fields it saved on entry
StopAll(ps) == [i \in DOMAIN ps |-> [ps[i] EXCEPT !.started = FALSE]]

\* a second pass of __exit__ over the same patchers: the first patcher it
\* reaches has nothing saved, and its __exit__ raises
exit_again(ps) ==
    IF ps # <<>> /\ ~ps[ReversedOrder(ps)[1]].started THEN "AttributeError" ELSE NoError

\* an __exit__ that answers True
ExitReturnsTrue == V("true", <<>>, 0)

\* the value __exit__ returns: neither ReversePatch.__exit__ nor Rcl.__exit__ has
\* a return statement
ExitReturns == None

\* what reaches the caller of a with-block whose __exit__ got exc_info and
\* returned ret: a true return value swallows the exception
Propagates(exc_info, ret) == IF ret.t = "true" THEN NoError ELSE exc_info

\* ---------------------------------------------------------------- sessions
\* ---------------------------------------------------------------- Rcl and PatchLogger
\* an Rcl that adds no exclude of its own
RclExcludeSetEmpty == {}

\* exclude_set_ of Rcl.__init__
RclExcludeSet == {Str(<<"logging">>), Str(<<"logger">>)}

\* Rcl._patch_logger_manager = None
NoManager == [entered |-> FALSE, patchers |-> <<>>]

\* PatchLogger.__enter__: one patcher with a new mock per logging method
RECURSIVE PatchLoggerEnter(_, _, _)
PatchLoggerEnter(st, logger, names) ==
    IF names = <<>> \/ st.err # NoError THEN st
    ELSE PatchLoggerEnter(PatchObjectDefault(st, logger, Head(names), FALSE),
                          logger, Tail(names))

\* Rcl.__enter__ after the base entry left st: PatchLogger(logger=getattr(
\* testing_module, 'logger')).__enter__(); the patchers of the result are
\* those of the PatchLogger
rcl_patch_logger(st) ==
    LET logger_ == Getattr(st.heap, Module, "logger")
        st0 == [heap |-> st.heap, patchers |-> <<>>, nxt |-> st.nxt, err |-> NoError,
                exclusions |-> EmptyMap]
    IN  IF logger_ = Absent THEN [st0 EXCEPT !.err = "AttributeError"]
        ELSE PatchLoggerEnter(st0, logger_, LoggerMethods)

\* a PatchLogger exit that leaves the leveled methods as they are
PatchLoggerExitNothing(h, ps) == h

\* PatchLogger.__exit__: for patcher in reversed(self._patchers):
\* patcher.__exit__(None, None, None)
PatchLoggerExit(h, ps) == exit(h, ps).heap

\* Rcl.__exit__: the PatchLogger's exit if there is one, then ReversePatch.__exit__
rcl_exit(h, manager, ps) ==
    IF manager.entered THEN exit(PatchLoggerExit(h, manager.patchers), ps) ELSE exit(h, ps)

\* Rcl.__exit__ called once more: the PatchLogger's exit comes first and raises,
\* otherwise the first patcher of ReversePatch.__exit__ does
rcl_exit_again(manager, ps) ==
    IF manager.entered /\ exit_again(manager.patchers) # NoError
    THEN exit_again(manager.patchers)
    ELSE exit_again(ps)

\* the conversions of a message template, in order; "%%" is the literal percent
Conversions == {"%s", "%d", "%(a)s", "%%"}
\* the kinds of positional argument of a log call
ArgKinds == {"str", "int", "dict"}

\* msg % tuple(args): the right operand is a tuple, never a mapping, so a named
\* conversion fails; every other conversion but "%%" takes the next argument;
\* arguments left over fail
RECURSIVE Format(_, _)
Format(msg, args) ==
    IF msg = <<>> THEN (IF args # <<>> THEN "TypeError" ELSE NoError)
    ELSE IF Head(msg) = "%%" THEN Format(Tail(msg), args)
    ELSE IF Head(msg) = "%(a)s" THEN "TypeError"
    ELSE IF args = <<>> THEN "TypeError"
    ELSE IF Head(msg) = "%d" /\ Head(args) # "int" THEN "TypeError"
    ELSE Format(Tail(msg), Tail(args))

\* PatchLogger._mock_log_method(msg, *args, **kwargs)
mock_log_method(msg, args) == Format(msg, args)

\* the logger of the testing module
TheLogger == Real(<<"logger">>)

\* logger.<method_name>(msg, *args): a stand-in records the call and then runs
\* its side effect, the real method formats nothing the caller sees
CallLogger(h, logger, method_name, msg, args) ==
    LET m == Getattr(h, logger, method_name) IN
    [method |-> method_name, msg |-> msg, args |-> args,
     recorded |-> IsMock(m),
     err |-> IF IsMock(m) THEN mock_log_method(msg, args) ELSE NoError]

\* the callables under test
TargetSet ==
    {Real(<<"success_function">>), Real(<<"free_self">>), Real(<<"kwonly_function">>),
     Bound(<<"free_self">>),
     Real(<<"FirstClass", "success_method">>),
     Bound(<<"FirstClass", "success_class_method">>),
     Bound(<<"FirstClass", "class_method_cls">>),
     Real(<<"FirstClass", "SecondClass", "second_success_method">>),
     Real(<<"InitCase", "use_attrs_inited_in__init">>)}

IncludeCandidates ==
    {Str(<<"logger">>), Str(<<"SomeException">>), Str(<<"MODULE_CONST">>),
     Str(<<"__name__">>), Str(<<"FirstClass", "failed_method">>)}

\* include sets that name a target, or the class that encloses one
TargetIncludes == {{Str(<<"success_function">>)}, {Str(<<"FirstClass">>)}}

ExcludeCandidates ==
    {Str(<<"id">>), Str(<<"failed_function">>),
     Str(<<"FirstClass", "failed_method">>), Str(<<"InitCase", "__init__">>),
     Str(<<"NoSuch", "attr">>),
     Real(<<"InitCase", "__init__">>), Real(<<"failed_function">>), Real(<<"MODULE_CONST">>)}

\* exclude sets that name a reserved name of the scope
ReservedExcludes == {{Str(<<"__name__">>)}}

Variants == {"ReversePatch", "Rc", "Rcl"}

\* what the target does when called: return, or raise one of these
TargetRaises == {"RuntimeError", "SystemExit"}
TargetOutcomes == {"return"} \cup TargetRaises

\* a target that logs with one argument too many:
\* logger.debug('debug %s', 'fail', 1)
LogFail == [method |-> "debug", msg |-> <<"%s">>, args |-> <<"str", "int">>]

\* what a target of an Rcl session may do: the above, or log like that
RclTargetOutcomes == TargetOutcomes \cup {"log_fail"}

\* isinstance(e, Exception): SystemExit derives from BaseException only
IsException(e) == e # "SystemExit"

\* no log call made
NoCall == [method |-> "", msg |-> <<>>, args |-> <<>>, recorded |-> FALSE, err |-> NoError]

\* no attribute assignment made
NoSet == [key |-> "", value |-> Absent, before |-> ArgsKwargs, err |-> NoError]

NoDTO == [args |-> ArgsKwargs, c |-> Absent, exclusions |-> EmptyMap, r |-> Absent]

\* the attributes of the real scope: the module's names and the attributes of
\* the classes it defines
RealLocs ==
    {Loc(Module, nm) : nm \in TopNames}
    \cup {Loc(Real(Front(q)), Last(q)) : q \in {d \in DOMAIN Def : Len(d) > 1}}

RealView(h) == [l \in RealLocs |-> Getattr(h, l.o, l.a)]

\* no second session yet; outer_pc is where the first session was when the
\* second one exited; mock_as_spec tells whether the mock library of the
\* interpreter takes a stand-in for a spec (before Python 3.10) or raises
\* InvalidSpecError (from 3.10 on)
NoSecond ==
    [pc |-> "new", func |-> Absent, patchers |-> <<>>, raised |-> NoError,
     mock_as_spec |-> FALSE, outer_pc |-> "new"]

Init ==
    /\ pc = "new"
    /\ variant = "ReversePatch"
    /\ func = Absent
    /\ include_set = DefaultIncludeSet
    /\ exclude_set = {}
    /\ exclusion_sets = NoExclusions
    /\ heap = EmptyMap
    /\ patchers = <<>>
    /\ nxt = 0
    /\ rp = NoDTO
    /\ raised = NoError
    /\ exit_log = <<>>
    /\ pre = RealView(EmptyMap)
    /\ chain = <<>>
    /\ ak = ArgsKwargs
    /\ ak_names = <<>>
    /\ ak_set = NoSet
    /\ patch_logger_manager = NoManager
    /\ exit_exc = NoError
    /\ log_call = NoCall
    /\ second = NoSecond

\* the exclude set the constructor of variant v hands to ReversePatch.__init__
\* (Rcl.__init__ adds its own two names)
ConstructorExcludeSet(v, exc) == IF v = "Rcl" THEN RclExcludeSet \cup exc ELSE exc

\* ReversePatch.__init__ (Rc inherits it, Rcl calls it)
Construct(v, f, inc, exc) ==
    /\ pc = "new"
    /\ variant' = v
    /\ func' = f
    /\ include_set' = IF inc # {} THEN DefaultIncludeSet \cup inc ELSE DefaultIncludeSet
    /\ exclude_set' = ConstructorExcludeSet(v, exc)
    /\ IF \E o \in exc : ~IsString(o) /\ ~HasQualname(o)
       THEN /\ pc' = "init_failed"
            /\ raised' = "ValueError"
            /\ UNCHANGED exclusion_sets
       ELSE /\ pc' = "idle"
            /\ exclusion_sets' = IF ConstructorExcludeSet(v, exc) # {}
                                 THEN init_exclusions(ConstructorExcludeSet(v, exc))
                                 ELSE NoExclusions
            /\ UNCHANGED raised
    /\ UNCHANGED <<second, heap, patchers, nxt, rp, exit_log, pre, chain, ak, ak_names, ak_set, patch_logger_manager, exit_exc, log_call>>

\* ReversePatch.__enter__
Enter ==
    /\ pc = "idle"
    /\ variant = "ReversePatch"
    /\ \E e \in EnterOutcomes(heap, patchers, nxt, func, include_set, exclusion_sets) :
         /\ heap' = e.st.heap
         /\ patchers' = e.st.patchers
         /\ nxt' = e.st.nxt
         /\ chain' = e.patching_list
         /\ IF e.st.err # NoError
            THEN pc' = "enter_failed" /\ raised' = e.st.err /\ UNCHANGED rp
            ELSE pc' = "active" /\ rp' = [args |-> e.dto.args, c |-> e.dto.c,
                                    exclusions |-> e.dto.exclusions, r |-> Absent] /\ UNCHANGED raised
    /\ pre' = RealView(heap)
    /\ UNCHANGED <<second, variant, func, include_set, exclude_set, exclusion_sets, exit_log, ak, ak_names, ak_set, patch_logger_manager, exit_exc, log_call>>

\* the value the target returns
ResultOf(c) == V("result", c.p, 0)

\* Rc.__enter__: the base entry, then rp.c(*rp.args); on an Exception
\* self.__exit__(None, None, None) and re-raise
EnterRc ==
    /\ pc = "idle"
    /\ variant = "Rc"
    /\ \E e \in EnterOutcomes(heap, patchers, nxt, func, include_set, exclusion_sets),
          behaviour \in TargetOutcomes :
         LET outcome == IF CallFits(e.dto.c, e.dto.args.vals)
                        THEN behaviour ELSE "TypeError"
         IN
         /\ patchers' = e.st.patchers
         /\ nxt' = e.st.nxt
         /\ chain' = e.patching_list
         /\ IF e.st.err # NoError
            THEN /\ pc' = "enter_failed" /\ raised' = e.st.err
                 /\ heap' = e.st.heap
                 /\ UNCHANGED <<rp, exit_log>>
            ELSE IF outcome = "return"
            THEN /\ pc' = "active"
                 /\ rp' = [args |-> e.dto.args, c |-> e.dto.c,
                           exclusions |-> e.dto.exclusions, r |-> ResultOf(e.dto.c)]
                 /\ heap' = e.st.heap
                 /\ UNCHANGED <<raised, exit_log>>
            ELSE IF IsException(outcome)
            THEN /\ pc' = "enter_failed" /\ raised' = outcome
                 /\ \E x \in {exit(e.st.heap, e.st.patchers)} :
                        heap' = x.heap /\ exit_log' = x.log
                 /\ UNCHANGED rp
            ELSE /\ pc' = "enter_failed" /\ raised' = outcome
                 /\ heap' = e.st.heap
                 /\ UNCHANGED <<rp, exit_log>>
    /\ pre' = RealView(heap)
    /\ UNCHANGED <<second, variant, func, include_set, exclude_set, exclusion_sets, ak, ak_names, ak_set, patch_logger_manager, exit_exc, log_call>>

\* Rcl.__enter__: the base entry, PatchLogger on the module's logger, then
\* rp.c(*rp.args); on an Exception self.__exit__(None, None, None) and re-raise
EnterRcl ==
    /\ pc = "idle"
    /\ variant = "Rcl"
    /\ \E e \in EnterOutcomes(heap, patchers, nxt, func, include_set, exclusion_sets),
          behaviour \in RclTargetOutcomes :
         \E l \in {IF e.st.err = NoError THEN rcl_patch_logger(e.st) ELSE e.st} :
         LET logged == CallLogger(l.heap, TheLogger, LogFail.method, LogFail.msg, LogFail.args)
             outcome == IF ~CallFits(e.dto.c, e.dto.args.vals) THEN "TypeError"
                        ELSE IF behaviour # "log_fail" THEN behaviour
                        ELSE IF logged.err # NoError THEN logged.err ELSE "return"
             manager == [entered |-> TRUE, patchers |-> l.patchers]
         IN
         /\ patchers' = e.st.patchers
         /\ nxt' = l.nxt
         /\ chain' = e.patching_list
         /\ IF l.err # NoError
            THEN /\ pc' = "enter_failed" /\ raised' = l.err
                 /\ heap' = l.heap
                 /\ UNCHANGED <<rp, exit_log, patch_logger_manager>>
            ELSE IF outcome = "return"
            THEN /\ pc' = "active"
                 /\ rp' = [args |-> e.dto.args, c |-> e.dto.c,
                           exclusions |-> e.dto.exclusions, r |-> ResultOf(e.dto.c)]
                 /\ heap' = l.heap
                 /\ patch_logger_manager' = manager
                 /\ UNCHANGED <<raised, exit_log>>
            ELSE IF IsException(outcome)
            THEN /\ pc' = "enter_failed" /\ raised' = outcome
                 /\ \E x \in {rcl_exit(l.heap, manager, e.st.patchers)} :
                        heap' = x.heap /\ exit_log' = x.log
                 /\ patch_logger_manager' = manager
                 /\ UNCHANGED rp
            ELSE /\ pc' = "enter_failed" /\ raised' = outcome
                 /\ heap' = l.heap
                 /\ patch_logger_manager' = manager
                 /\ UNCHANGED <<rp, exit_log>>
    /\ pre' = RealView(heap)
    /\ UNCHANGED <<second, variant, func, include_set, exclude_set, exclusion_sets, ak, ak_names, ak_set, exit_exc, log_call>>

\* what is in flight when the with-block ends
ExcInfos == {NoError, "RuntimeError"}

\* __exit__(exc_type, exc_val, exc_tb) of ReversePatch, or of Rcl when there is
\* a PatchLogger; it returns None, so an exception in flight keeps propagating
Exit(exc_info) ==
    /\ pc = "active"
    /\ \E x \in {rcl_exit(heap, patch_logger_manager, patchers)} :
          heap' = x.heap /\ exit_log' = x.log
    /\ patchers' = StopAll(patchers)
    /\ patch_logger_manager' = [patch_logger_manager EXCEPT !.patchers = StopAll(@)]
    /\ pc' = "exited"
    /\ exit_exc' = exc_info
    /\ raised' = Propagates(exc_info, ExitReturns)
    /\ UNCHANGED <<second, variant, func, include_set, exclude_set, exclusion_sets,
                   nxt, rp, pre, chain, ak, ak_names, ak_set, log_call>>

\* __exit__(None, None, None) called again on a session that has exited
ExitAgain ==
    /\ pc = "exited"
    /\ pc' = "exited_again"
    /\ exit_exc' = NoError
    /\ \E err \in {rcl_exit_again(patch_logger_manager, patchers)} :
          IF err # NoError
          THEN raised' = err /\ UNCHANGED <<heap, exit_log>>
          ELSE /\ raised' = NoError
               /\ \E x \in {rcl_exit(heap, patch_logger_manager, patchers)} :
                     heap' = x.heap /\ exit_log' = x.log
    /\ UNCHANGED <<second, variant, func, include_set, exclude_set, exclusion_sets, patchers,
                   nxt, rp, pre, chain, ak, ak_names, ak_set, patch_logger_manager,
                   log_call>>

\* ReversePatch.__enter__ called again on the handle of a session that has
\* exited: the method has no guard, the new patchers join the old ones
EnterAgain ==
    /\ pc = "exited"
    /\ variant = "ReversePatch"
    /\ \E e \in EnterOutcomes(heap, patchers, nxt, func, include_set, exclusion_sets) :
         /\ heap' = e.st.heap
         /\ patchers' = e.st.patchers
         /\ nxt' = e.st.nxt
         /\ chain' = e.patching_list
         /\ IF e.st.err # NoError
            THEN pc' = "reenter_failed" /\ raised' = e.st.err /\ UNCHANGED rp
            ELSE pc' = "reentered" /\ raised' = NoError
                 /\ rp' = [args |-> e.dto.args, c |-> e.dto.c,
                           exclusions |-> e.dto.exclusions, r |-> Absent]
    /\ exit_exc' = NoError
    /\ exit_log' = <<>>
    /\ UNCHANGED <<second, variant, func, include_set, exclude_set, exclusion_sets, pre,
                   ak, ak_names, ak_set, patch_logger_manager, log_call>>

\* ReversePatch.__exit__(None, None, None) after the second entry
ExitReentered ==
    /\ pc = "reentered"
    /\ \E x \in {exit_started(heap, patchers)} :
          heap' = x.heap /\ exit_log' = x.log /\ raised' = x.err
    /\ patchers' = StopAll(patchers)
    /\ pc' = "reexited"
    /\ UNCHANGED <<second, variant, func, include_set, exclude_set, exclusion_sets, nxt, rp, pre,
                   chain, ak, ak_names, ak_set, patch_logger_manager, exit_exc, log_call>>

Subsets(S, k) == {T \in SUBSET S : Cardinality(T) <= k}

Next ==
    \/ /\ pc = "new"
       /\ \E v \in Variants, f \in TargetSet,
             inc \in Subsets(IncludeCandidates, MaxInclude) \cup TargetIncludes,
             exc \in Subsets(ExcludeCandidates, MaxExclude) \cup ReservedExcludes :
                Construct(v, f, inc, exc)
    \/ Enter
    \/ EnterRc
    \/ EnterRcl
    \/ \E x \in ExcInfos : Exit(x)
    \/ ExitAgain
    \/ EnterAgain
    \/ ExitReentered

Spec == Init /\ [][Next]_vars

\* ---------------------------------------------------------------- a stand-alone ArgsKwargs
ArgNames == {"self", "cls", "x", "count"}
ArgValues == {Fresh(1), Fresh(2)}
\* the value an assignment writes
SetValues == {Fresh(3)}

\* args_kwargs.add_argument(argument_name, argument_value)
AddArgument(argument_name, argument_value) ==
    /\ Len(ak.vals) < MaxArgs
    /\ ak' = add_argument(ak, argument_name, argument_value)
    /\ ak_names' = Append(ak_names, argument_name)
    /\ ak_set' = NoSet
    /\ UNCHANGED <<second, pc, variant, func, include_set, exclude_set, exclusion_sets, heap,
                   patchers, nxt, rp, raised, exit_log, pre, chain, patch_logger_manager,
                   exit_exc, log_call>>

\* args_kwargs.<key> = value
SetAttr(key, value) ==
    /\ \E r \in {setattr_args(ak, key, value)} :
          /\ ak' = r.a
          /\ ak_set' = [key |-> key, value |-> value, before |-> ak, err |-> r.err]
    /\ UNCHANGED <<second, pc, variant, func, include_set, exclude_set, exclusion_sets, heap,
                   patchers, nxt, rp, raised, exit_log, pre, chain, ak_names,
                   patch_logger_manager, exit_exc, log_call>>

NextArgs ==
    \/ \E nm \in ArgNames, v \in ArgValues : AddArgument(nm, v)
    \/ \E nm \in ArgNames, v \in SetValues : SetAttr(nm, v)

SpecArgs == Init /\ [][NextArgs]_vars

\* ---------------------------------------------------------------- a stand-alone PatchLogger
Seqs(S, k) == UNION {[1..n -> S] : n \in 0..k}

\* PatchLogger(logger).__enter__()
LoggerEnter ==
    /\ pc = "new"
    /\ \E l \in {PatchLoggerEnter([heap |-> heap, patchers |-> <<>>, nxt |-> nxt,
                                    err |-> NoError, exclusions |-> EmptyMap],
                                   TheLogger, LoggerMethods)} :
          /\ heap' = l.heap
          /\ nxt' = l.nxt
          /\ patch_logger_manager' = [entered |-> TRUE, patchers |-> l.patchers]
    /\ pc' = "logging"
    /\ UNCHANGED <<second, variant, func, include_set, exclude_set, exclusion_sets, patchers,
                   rp, raised, exit_log, pre, chain, ak, ak_names, ak_set, exit_exc,
                   log_call>>

\* the log call of the with-block: logger.<method_name>(msg, *args)
LogCall(method_name, msg, args) ==
    /\ pc = "logging"
    /\ log_call = NoCall
    /\ log_call' = CallLogger(heap, TheLogger, method_name, msg, args)
    /\ UNCHANGED <<second, pc, variant, func, include_set, exclude_set, exclusion_sets, heap,
                   patchers, nxt, rp, raised, exit_log, pre, chain, ak, ak_names, ak_set,
                   patch_logger_manager, exit_exc>>

\* PatchLogger.__exit__(exc_type, exc_val, exc_tb): it returns None
LoggerExit(exc_info) ==
    /\ pc = "logging"
    /\ heap' = PatchLoggerExit(heap, patch_logger_manager.patchers)
    /\ patch_logger_manager' = [patch_logger_manager EXCEPT !.patchers = StopAll(@)]
    /\ pc' = "logged_out"
    /\ exit_exc' = exc_info
    /\ raised' = Propagates(exc_info, None)
    /\ UNCHANGED <<second, variant, func, include_set, exclude_set, exclusion_sets, patchers,
                   nxt, rp, exit_log, pre, chain, ak, ak_names, ak_set, log_call>>

NextLogger ==
    \/ LoggerEnter
    \/ /\ pc = "logging" /\ log_call = NoCall
       /\ \E method_name \in Range(LoggerMethods), msg \in Seqs(Conversions, MaxLog),
             args \in Seqs(ArgKinds, MaxLog) : LogCall(method_name, msg, args)
    \/ \E exc_info \in {NoError, log_call.err} : LoggerExit(exc_info)

SpecLogger == Init /\ [][NextLogger]_vars

\* ---------------------------------------------------------------- two sessions on one module
SecondTargets == {Real(<<"success_function">>), Real(<<"FirstClass", "success_method">>)}

\* the bindings of the real scope alone: each session has a FakeModule and a
\* shadow of its own
ScopeOnly(h) == [l \in {k \in DOMAIN h : k.o.t \in {"module", "real"}} |-> h[l]]

\* the module binds a function that is a stand-in: autospec of the module
\* specs the functions of the module as soon as the shadow is built
HoldsFunctionStandIn(h) ==
    \E nm \in TopNames :
        \E v \in {Getattr(h, Module, nm)} : IsStandIn(v) /\ KindOf(v) = "function"

\* patch.object(fake_parent_module, 'tm', autospec=True), appended to
\* self._patchers before its __enter__ raised
UnstartedModulePatcher ==
    [target |-> FakeModule, attribute |-> "tm", new |-> Absent, temp_original |-> Absent,
     is_local |-> FALSE, create |-> FALSE, started |-> FALSE]

\* ReversePatch(g) with the default include and exclude sets, constructed
\* while the first session is active
ConstructSecond(g, lib) ==
    /\ pc = "active"
    /\ second.pc = "new"
    /\ second' = [NoSecond EXCEPT !.pc = "idle", !.func = g, !.mock_as_spec = lib]
    /\ UNCHANGED <<pc, variant, func, include_set, exclude_set, exclusion_sets, heap,
                   patchers, nxt, rp, raised, exit_log, pre, chain, ak, ak_names, ak_set,
                   patch_logger_manager, exit_exc, log_call>>

\* ReversePatch.__enter__ of the second session, while the first is active
EnterSecond ==
    /\ pc = "active"
    /\ second.pc = "idle"
    /\ IF ~second.mock_as_spec /\ HoldsFunctionStandIn(heap)
       THEN /\ second' = [second EXCEPT !.pc = "enter_failed",
                                         !.patchers = <<UnstartedModulePatcher>>,
                                         !.raised = "InvalidSpecError"]
            /\ UNCHANGED <<heap, nxt>>
       ELSE \E e \in EnterOutcomes(ScopeOnly(heap), <<>>, nxt, second.func,
                                    DefaultIncludeSet, NoExclusions) :
                /\ heap' = ScopeOnly(e.st.heap) @@ heap
                /\ nxt' = e.st.nxt
                /\ second' = [second EXCEPT
                                 !.pc = IF e.st.err # NoError THEN "enter_failed" ELSE "active",
                                 !.patchers = e.st.patchers,
                                 !.raised = e.st.err]
    /\ UNCHANGED <<pc, variant, func, include_set, exclude_set, exclusion_sets,
                   patchers, rp, raised, exit_log, pre, chain, ak, ak_names, ak_set,
                   patch_logger_manager, exit_exc, log_call>>

\* ReversePatch.__exit__(None, None, None) of the second session, before or
\* after the first session has exited
ExitSecond ==
    /\ second.pc \in {"active", "enter_failed"}
    /\ \E x \in {exit_started(ScopeOnly(heap), second.patchers)} :
          /\ heap' = ScopeOnly(x.heap) @@ heap
          /\ second' = [second EXCEPT !.pc = "exited", !.raised = x.err,
                                       !.patchers = StopAll(@), !.outer_pc = pc]
    /\ UNCHANGED <<pc, variant, func, include_set, exclude_set, exclusion_sets,
                   patchers, nxt, rp, raised, exit_log, pre, chain, ak, ak_names, ak_set,
                   patch_logger_manager, exit_exc, log_call>>

NextOverlap ==
    \/ /\ pc = "new"
       /\ \E f \in TargetSet,
             inc \in Subsets(IncludeCandidates, MaxInclude) \cup TargetIncludes,
             exc \in Subsets(ExcludeCandidates, MaxExclude) \cup ReservedExcludes :
                Construct("ReversePatch", f, inc, exc)
    \/ Enter
    \/ \E g \in SecondTargets, lib \in BOOLEAN : ConstructSecond(g, lib)
    \/ EnterSecond
    \/ Exit(NoError)
    \/ ExitSecond

SpecOverlap == Init /\ [][NextOverlap]_vars

\* ---------------------------------------------------------------- the first-generation engine
\* ReversePatch of src/reverse_patch.py: bare names only in both sets
Gen1Variant == "ReversePatchGen1"

Gen1IncludeCandidates ==
    {Str(<<"logger">>), Str(<<"SomeException">>), Str(<<"failed_function">>),
     Str(<<"__name__">>), Str(<<"success_function">>), Str(<<"type">>)}

Gen1ExcludeCandidates == {Str(<<"id">>), Str(<<"failed_function">>), Str(<<"logger">>)}

\* one iteration of the loop of _patch_module_identifiers
Gen1PatchModuleIdentifier(st, f, inc, exc, patching_list, identifier, mocked_module) ==
    LET identifier_value == Getattr(st.heap, Module, identifier)
    IN  IF Str(<<identifier>>) \in exc THEN st
        ELSE IF identifier \in DunderNames /\ Str(<<identifier>>) \notin inc THEN st
        ELSE IF identifier_value = f THEN st
        ELSE IF Len(patching_list) > 0 /\ identifier = MockName(patching_list[1]) THEN st
        ELSE IF Getattr(st.heap, mocked_module, identifier) = Absent
             THEN [st EXCEPT !.err = "AttributeError"]
             ELSE PatchObject(st, Module, identifier,
                              Getattr(st.heap, mocked_module, identifier), FALSE)

RECURSIVE Gen1PatchModuleLoop(_, _, _, _, _, _, _)
Gen1PatchModuleLoop(st, f, inc, exc, patching_list, names, mocked_module) ==
    IF names = <<>> \/ st.err # NoError THEN st
    ELSE Gen1PatchModuleLoop(
            Gen1PatchModuleIdentifier(st, f, inc, exc, patching_list, Head(names), mocked_module),
            f, inc, exc, patching_list, Tail(names), mocked_module)

\* one iteration of the loop of _patch_include_set:
\* patch.object(testing_module, identifier, create=True)
Gen1PatchInclude(st, identifier) == PatchObjectDefault(st, Module, Last(identifier.p), TRUE)

\* _patch_include_set, the set iterated in the order `order`
RECURSIVE Gen1PatchIncludeSet(_, _)
Gen1PatchIncludeSet(st, order) ==
    IF order = <<>> \/ st.err # NoError THEN st
    ELSE Gen1PatchIncludeSet(Gen1PatchInclude(st, Head(order)), Tail(order))

\* every outcome __enter__ can have, over the orders in which the include set
\* may be iterated
Gen1EnterOutcomes(h, n, f, inc, exc) ==
    LET st0 == [heap |-> h, patchers |-> <<>>, nxt |-> n, err |-> NoError,
                exclusions |-> EmptyMap]
        st1 == PatchObject(st0, FakeModule, "tm", Shadow(<<>>), FALSE)
        mocked_module == st1.heap[Loc(FakeModule, "tm")]
        patching_list == get_patching_list(st1.heap, f, mocked_module)
        dto == get_args_and_callable(f, patching_list, st1.nxt)
        st2 == IF Absent \in Range(patching_list)
               THEN [st1 EXCEPT !.err = "AttributeError"]
               ELSE [st1 EXCEPT !.nxt = dto.nxt]
        st3 == Gen1PatchModuleLoop(st2, f, inc, exc, patching_list, DictNames(st2.heap),
                                   mocked_module)
    IN  {[st |-> Gen1PatchIncludeSet(st3, io), patching_list |-> patching_list,
          args |-> dto.args, c |-> dto.c] : io \in Orders(inc \ exc)}

\* for patcher in self._patchers: the patchers in application order
Gen1ExitOrder(ps) == [i \in 1..Len(ps) |-> i]

\* ReversePatch.__exit__
Gen1ExitPatchers(h, ps) ==
    ExitLoopStarted([heap |-> h, log |-> <<>>, err |-> NoError], ps, Gen1ExitOrder(ps))

\* ReversePatch.__init__
Gen1Construct(f, inc, exc) ==
    /\ pc = "new"
    /\ pc' = "idle"
    /\ variant' = Gen1Variant
    /\ func' = f
    /\ include_set' = IF inc # {} THEN DefaultIncludeSet \cup inc ELSE DefaultIncludeSet
    /\ exclude_set' = exc
    /\ UNCHANGED <<second, exclusion_sets, heap, patchers, nxt, rp, raised, exit_log, pre,
                   chain, ak, ak_names, ak_set, patch_logger_manager, exit_exc, log_call>>

\* ReversePatch.__enter__; the holder of the module is a Mock, which the mock
\* library accepts as the target of an autospec patch (mock_as_spec) or
\* rejects with InvalidSpecError (Python 3.10 and later)
Gen1Enter(mock_as_spec) ==
    /\ pc = "idle"
    /\ variant = Gen1Variant
    /\ pre' = RealView(heap)
    /\ IF ~mock_as_spec
       THEN /\ pc' = "enter_failed"
            /\ raised' = "InvalidSpecError"
            /\ patchers' = <<UnstartedModulePatcher>>
            /\ UNCHANGED <<heap, nxt, chain, rp>>
       ELSE \E e \in Gen1EnterOutcomes(heap, nxt, func, include_set, exclude_set) :
                /\ heap' = e.st.heap
                /\ patchers' = e.st.patchers
                /\ nxt' = e.st.nxt
                /\ chain' = e.patching_list
                /\ IF e.st.err # NoError
                   THEN pc' = "enter_failed" /\ raised' = e.st.err /\ UNCHANGED rp
                   ELSE /\ pc' = "active"
                        /\ rp' = [args |-> e.args, c |-> e.c, exclusions |-> EmptyMap,
                                  r |-> Absent]
                        /\ UNCHANGED raised
    /\ UNCHANGED <<second, variant, func, include_set, exclude_set, exclusion_sets, exit_log,
                   ak, ak_names, ak_set, patch_logger_manager, exit_exc, log_call>>

\* ReversePatch.__exit__(None, None, None)
Gen1Exit ==
    /\ pc = "active"
    /\ variant = Gen1Variant
    /\ \E x \in {Gen1ExitPatchers(heap, patchers)} :
          heap' = x.heap /\ exit_log' = x.log /\ raised' = x.err
    /\ patchers' = StopAll(patchers)
    /\ pc' = "exited"
    /\ UNCHANGED <<second, variant, func, include_set, exclude_set, exclusion_sets, nxt, rp,
                   pre, chain, ak, ak_names, ak_set, patch_logger_manager, exit_exc, log_call>>

NextGen1 ==
    \/ /\ pc = "new"
       /\ \E f \in TargetSet, inc \in Subsets(Gen1IncludeCandidates, MaxInclude),
             exc \in Subsets(Gen1ExcludeCandidates, MaxExclude) :
                Gen1Construct(f, inc, exc)
    \/ \E mock_as_spec \in BOOLEAN : Gen1Enter(mock_as_spec)
    \/ Gen1Exit

SpecGen1 == Init /\ [][NextGen1]_vars

\* ================================================================ claims
ScopeRestored == RealView(heap) = pre

\* the names entry created in the module
CreatedNames ==
    {nm \in TopNames :
        \E i \in DOMAIN patchers :
            patchers[i].target = Module /\ patchers[i].attribute = nm
            /\ patchers[i].temp_original = Absent}

\* C1: after __enter__ followed by __exit__ every binding of the real scope
\* equals its value before entry, and every name entry created is absent again.
C1_RoundTrip ==
    pc = "exited" =>
        /\ ScopeRestored
        /\ \A nm \in CreatedNames : Getattr(heap, Module, nm) = Absent

C1_Witness ==
    /\ pc = "exited"
    /\ "id" \in CreatedNames
    /\ \E i, j \in DOMAIN patchers :
          i < j /\ patchers[i].target = Module /\ patchers[j].target = Module
          /\ patchers[i].attribute = patchers[j].attribute

\* C2: __exit__ reverses the patchers in exactly the opposite order to the one
\* __enter__ applied them in, the whole-scope shadow patcher (the first record)
\* last, after normal completion as after a propagating failure (for a handle
\* that was entered once; entering it again is C34).
C2_ReverseOrder ==
    (pc \in {"exited", "exited_again"} /\ exit_log # <<>>) =>
        /\ Len(exit_log) = Len(patchers)
        /\ \A i \in DOMAIN exit_log : exit_log[i] = Len(patchers) + 1 - i
        /\ patchers[exit_log[Len(exit_log)]].target = FakeModule

C2_Witness ==
    /\ pc = "exited"
    /\ raised = "RuntimeError"
    /\ Len(exit_log) >= 3

\* C3 (as claimed): whatever the target raises inside Rc.__enter__, the real
\* scope is restored when the exception reaches the caller.
C3_RcRestoresOnAnyRaise ==
    (variant = "Rc" /\ pc = "enter_failed" /\ raised \in TargetRaises \cup {"TypeError"})
        => ScopeRestored

\* C4 (as claimed): when __enter__ itself fails after applying substitutions,
\* the real scope equals its pre-entry value when the error reaches the caller.
C4_EnterFailureRestores ==
    (pc = "enter_failed" /\ raised \in {"AttributeError", "ValueError"} /\ Len(patchers) > 1)
        => ScopeRestored

\* the bindings of the active session whose base entry had outcome e
ActiveHeap(e) == IF variant = "Rcl" THEN rcl_patch_logger(e.st).heap ELSE e.st.heap

\* C5: an identifier in both the include set and the exclude set has no effect
\* as an include: the substitutions entry applied, the DTO it returned and the
\* scope after exit are those of the session without it in the include set.
C5_ExclusionPrecedence ==
    pc = "active" =>
        \A x \in include_set \cap exclude_set :
            \E e \in EnterOutcomes(EmptyMap, <<>>, 0, func, include_set \ {x}, exclusion_sets) :
                    /\ e.st.err = NoError
                    /\ e.st.patchers = patchers
                    /\ ActiveHeap(e) = heap
                    /\ e.dto.args = rp.args /\ e.dto.exclusions = rp.exclusions
                    /\ RealView(rcl_exit(ActiveHeap(e), patch_logger_manager, e.st.patchers).heap)
                         = RealView(rcl_exit(heap, patch_logger_manager, patchers).heap)

C5_Witness ==
    /\ pc = "active"
    /\ func = Real(<<"FirstClass", "success_method">>)
    /\ Str(<<"FirstClass", "failed_method">>) \in include_set \cap exclude_set
    /\ Getattr(heap, Real(<<"FirstClass">>), "failed_method")
         = Real(<<"FirstClass", "failed_method">>)

\* the module's top-level names bound to a class deriving from Exception before entry
ExceptionNames == {nm \in TopNames : KindOf(Real(<<nm>>)) = "exception"}

OtherValues(a, i) == {a.vals[j] : j \in DOMAIN a.vals \ {i}}

\* a new stand-in that is no chain entry and no other argument
FreshAndDistinct(a, i) ==
    /\ a.vals[i].t = "fresh"
    /\ a.vals[i] \notin Range(chain)
    /\ a.vals[i] \notin OtherValues(a, i)

\* C7: for a target not classified as a class method, a declared parameter is
\* bound to the chain's last stand-in exactly when the chain is non-empty and
\* the parameter is named `self`; every other parameter gets a fresh stand-in
\* distinct from every chain entry and every other argument.
C7_SelfBinding ==
    (pc = "active" /\ ~is_class_method(func)) =>
        LET params == SignatureParams(func) IN
        /\ Len(rp.args.vals) = Len(params)
        /\ \A i \in DOMAIN params :
              IF Len(chain) > 0 /\ params[i] = "self"
              THEN rp.args.vals[i] = chain[Len(chain)]
              ELSE FreshAndDistinct(rp.args, i)

C7_Witness ==
    /\ pc = "active"
    /\ func = Real(<<"FirstClass", "SecondClass", "second_success_method">>)
    /\ Len(chain) = 2
    /\ rp.args.vals[1] = Shadow(<<"FirstClass", "SecondClass">>)
    /\ rp.args.vals[2].t = "fresh"

\* C8 (as claimed): for a class-method target with a non-empty chain, slot 0,
\* which the name `cls` addresses, is the chain's last stand-in, it is followed
\* by one fresh stand-in per remaining declared parameter, and the invocable is
\* the unbound underlying function.
C8_ClsBinding ==
    (pc = "active" /\ is_class_method(func) /\ Len(chain) > 0) =>
        /\ getitem(rp.args, 0) = chain[Len(chain)]
        /\ getattr_args(rp.args, "cls") = chain[Len(chain)]
        /\ Len(rp.args.vals) = 1 + Len(SignatureParams(func))
        /\ \A i \in 2..Len(rp.args.vals) : FreshAndDistinct(rp.args, i)
        /\ rp.c = UnderlyingFunc(func)

\* C9 (as claimed): in any collection built by add_argument calls the value
\* read by index i is the value read by the name added at position i.
C9_IndexEqualsName ==
    \A i \in 0..(Len(ak.vals) - 1) :
        getattr_args(ak, ak_names[i + 1]) = getitem(ak, i)

\* C10 (as claimed): the collection entry returns holds one value per
\* parameter of the invocable, in declaration order, so that c(*args) binds
\* each declared parameter of the invocable to the value entry made for it.
C10_UnpackingOrder ==
    pc = "active" =>
        /\ CallFits(rp.c, rp.args.vals)
        /\ Len(rp.args.vals) = Len(SignatureParams(rp.c))

\* C11 (as claimed): assigning to a name that add_argument bound replaces the
\* value of the slot added under that name and nothing else: the length, the
\* name-to-index mapping and every other slot are unchanged, and the new value
\* is read by that name and by that slot's index.
C11_SetattrFrame ==
    (ak_set # NoSet /\ ak_set.key \in Range(ak_names)) =>
        /\ ak_set.err = NoError
        /\ Len(ak.vals) = Len(ak_set.before.vals)
        /\ ak.index_map = ak_set.before.index_map
        /\ getattr_args(ak, ak_set.key) = ak_set.value
        /\ \A i \in DOMAIN ak_names :
              IF ak_names[i] = ak_set.key /\ \A j \in (i + 1)..Len(ak_names) : ak_names[j] # ak_set.key
              THEN ak.vals[i] = ak_set.value
              ELSE ak.vals[i] = ak_set.before.vals[i]

\* the parameters entry binds by name for the target
DeclaredNames == Range(SignatureParams(func))

C13_RcBundle ==
    (pc = "active" /\ variant = "Rc") =>
        /\ rp.r = ResultOf(rp.c)
        /\ CallFits(rp.c, rp.args.vals)
        /\ \E e \in EnterOutcomes(EmptyMap, <<>>, 0, func, include_set, exclusion_sets) :
              /\ e.st.err = NoError
              /\ e.dto.args = rp.args /\ e.dto.c = rp.c /\ e.dto.exclusions = rp.exclusions
              /\ e.st.heap = heap
        /\ LET it == ResultReversePatchDTO_iter(rp) IN
              /\ Len(it) = 5
              /\ it[1] = rp.r
              /\ SubSeq(it, 2, 5) = ReversePatchDTO_iter(rp)

C13_Witness ==
    /\ pc = "active" /\ variant = "Rc"
    /\ func = Real(<<"FirstClass", "success_method">>)
    /\ rp.r = ResultOf(Real(<<"FirstClass", "success_method">>))
    /\ ResultReversePatchDTO_iter(rp)[5] = Shadow(<<"FirstClass">>)

\* the object-based excludes of the session
ObjectExcludes == {o \in exclude_set : o.t # "str"}

\* an object the testing module binds to a plain value (a string constant, a
\* logger): such objects carry no qualified name
IsPlainValue(o) == o.t = "real" /\ Def[o.p] = "const"

\* the configuration error the engine raises itself
ConfigurationError == "ValueError"

\* C14 (as claimed): when every object-based exclude exposes a qualified name,
\* neither construction nor entry raises a configuration error.
C14_OnlyUnresolvableObjectsFail ==
    (\A o \in ObjectExcludes : ~IsPlainValue(o)) =>
        ~(pc \in {"init_failed", "enter_failed"} /\ raised = ConfigurationError)

\* C15 (as claimed): an object-based exclude without a qualified name lets
\* construction succeed and fails at the Idle -> Active transition, with the
\* real scope unchanged.
C15_UnresolvableFailsAtEntry ==
    (\E o \in ObjectExcludes : IsPlainValue(o)) =>
        \/ pc = "idle"
        \/ pc = "enter_failed" /\ raised = ConfigurationError /\ ScopeRestored

\* C15 (amended): an object-based exclude without a qualified name makes the
\* construction of the session fail with the configuration error: no session
\* reaches Idle, nothing is substituted and the real scope is unchanged.
C15_UnresolvableFailsAtConstruction ==
    (\E o \in ObjectExcludes : IsPlainValue(o)) =>
        /\ pc = "init_failed"
        /\ raised = ConfigurationError
        /\ patchers = <<>>
        /\ heap = EmptyMap
        /\ RealView(heap) = RealView(EmptyMap)

C15_Witness ==
    /\ pc = "init_failed"
    /\ raised = ConfigurationError
    /\ Real(<<"MODULE_CONST">>) \in exclude_set
    /\ func = Real(<<"FirstClass", "success_method">>)

\* C16: in an active session whose exclude set does not contain `id` the real
\* scope binds `id` to a stand-in, whatever include set the caller supplied;
\* in a session whose exclude set contains `id` it never does.
C16_DefaultId ==
    /\ (pc = "active" /\ Str(<<"id">>) \notin exclude_set)
          => IsStandIn(Getattr(heap, Module, "id"))
    /\ Str(<<"id">>) \in exclude_set => ~IsStandIn(Getattr(heap, Module, "id"))

C16_Witness ==
    /\ pc = "active"
    /\ Str(<<"SomeException">>) \in include_set
    /\ Str(<<"id">>) \notin exclude_set
    /\ pre[Loc(Module, "id")] = Absent
    /\ IsStandIn(Getattr(heap, Module, "id"))

\* the dotted paths of the excluded initializers: path strings and qualified
\* names of objects whose final segment is __init__
ExcludedInitializers ==
    {x.p : x \in {e \in exclude_set : Len(e.p) > 1 /\ Last(e.p) = "__init__"}}

\* C17 (as claimed): for every target and every excluded initializer the
\* bundle maps the initializer object and its dotted path to the same
\* (arguments, invocable) pair, whose invocable is the original initializer.
C17_InitializerExclusionBundle ==
    pc = "active" =>
        \A p \in ExcludedInitializers :
            /\ {Real(p), Str(p)} \subseteq DOMAIN rp.exclusions
            /\ rp.exclusions[Real(p)] = rp.exclusions[Str(p)]
            /\ rp.exclusions[Real(p)].c = Real(p)

\* C18: when the target is a method that declares `self` and the initializer
\* of its immediately enclosing class is excluded, the exclusion's `self` slot
\* is the `self` slot of the main argument collection, the chain's last
\* stand-in.
C18_SharedSelf ==
    (pc = "active" /\ ~is_class_method(func) /\ "self" \in DeclaredNames
       /\ Len(chain) > 0 /\ Front(func.p) \o <<"__init__">> \in ExcludedInitializers) =>
        LET k == Str(Front(func.p) \o <<"__init__">>) IN
        /\ k \in DOMAIN rp.exclusions
        /\ getattr_args(rp.exclusions[k].args, "self") = getattr_args(rp.args, "self")
        /\ getitem(rp.exclusions[k].args, 0) = ChainLast(chain)
        /\ getitem(rp.args, 0) = ChainLast(chain)

C18_Witness ==
    /\ pc = "active"
    /\ func = Real(<<"InitCase", "use_attrs_inited_in__init">>)
    /\ Str(<<"InitCase", "__init__">>) \in exclude_set
    /\ Str(<<"InitCase", "__init__">>) \in DOMAIN rp.exclusions
    /\ getattr_args(rp.exclusions[Str(<<"InitCase", "__init__">>)].args, "self")
         = Shadow(<<"InitCase">>)

\* errors raised by the engine's own code during entry
EntryErrors == {"ValueError", "AttributeError"}

\* C19 (as claimed): a session whose exclude set is one object behaves as the
\* session whose exclude set is that object's qualified path: entry has the
\* same outcome, applies the same substitutions and returns an exclusion map
\* with the same keys.
C19_ObjectEqualsPath ==
    \A o \in ObjectExcludes :
        (exclude_set = {o}
           /\ (pc = "active" \/ (pc = "enter_failed" /\ raised \in EntryErrors))) =>
            \E e \in EnterOutcomes(EmptyMap, <<>>, 0, func, include_set,
                                   init_exclusions({get_exclude_object_path(o)})) :
                /\ e.st.err = (IF pc = "active" THEN NoError ELSE raised)
                /\ e.st.patchers = patchers
                /\ pc = "active" => DOMAIN e.dto.exclusions = DOMAIN rp.exclusions

\* C20: in an Rcl session, whatever include set and exclude set the caller
\* supplied, the real scope's bindings for `logging` and `logger` are those of
\* the module at every point of the session.
C20_RclKeepsLogging ==
    variant = "Rcl" =>
        /\ Getattr(heap, Module, "logging") = Real(<<"logging">>)
        /\ Getattr(heap, Module, "logger") = Real(<<"logger">>)

C20_Witness ==
    /\ variant = "Rcl"
    /\ pc = "active"
    /\ Str(<<"logger">>) \in include_set
    /\ Getattr(heap, Module, "logger") = Real(<<"logger">>)
    /\ IsStandIn(Getattr(heap, Module, "MODULE_CONST"))
    /\ IsStandIn(Getattr(heap, Real(<<"logger">>), "debug"))

\* the positional arguments fit the template: one argument per conversion other
\* than "%%", a number where the conversion is "%d"; or, where the template
\* names its values, the one mapping that holds them
SatisfiesTemplate(msg, args) ==
    LET ph == SelectSeq(msg, LAMBDA c : c # "%%") IN
    IF \E i \in DOMAIN ph : ph[i] = "%(a)s"
    THEN args = <<"dict">> /\ \A i \in DOMAIN ph : ph[i] # "%d"
    ELSE Len(args) = Len(ph) /\ \A i \in DOMAIN ph : ph[i] = "%d" => args[i] = "int"

\* C21: while a PatchLogger session is active, a call through a leveled method
\* fails exactly when its positional arguments do not satisfy its message
\* template, and a call that satisfies it is recorded
C21_FailsExactlyOnMismatch ==
    (pc = "logging" /\ log_call # NoCall) =>
        /\ (log_call.err # NoError) <=> ~SatisfiesTemplate(log_call.msg, log_call.args)
        /\ SatisfiesTemplate(log_call.msg, log_call.args) => log_call.recorded

\* C22: after a PatchLogger session exits, whether or not a log call failed in
\* it, each of the five leveled methods is its pre-entry value and no stand-in
C22_LoggerMethodsRestored ==
    pc = "logged_out" =>
        \A m \in Range(LoggerMethods) :
            /\ Getattr(heap, TheLogger, m) = Getattr(EmptyMap, TheLogger, m)
            /\ ~IsMock(Getattr(heap, TheLogger, m))

\* a session in which a log call failed, and which was left with that failure in flight
C22_Witness ==
    /\ pc = "logged_out"
    /\ log_call.recorded /\ log_call.err = "TypeError"
    /\ exit_exc = "TypeError"

\* C23: an exit that is given exception information does not handle it: the
\* same exception reaches the caller, after the substitutions are reversed
C23_ExitNeverSuppresses ==
    (pc = "exited" /\ exit_exc # NoError) => (raised = exit_exc /\ ScopeRestored)

\* an Rcl session left with a failure in flight (the other variants share the exit)
C23_Witness ==
    /\ pc = "exited" /\ variant = "Rcl" /\ patch_logger_manager.entered
    /\ exit_exc = "RuntimeError" /\ raised = "RuntimeError"
    /\ Len(exit_log) > 1

\* C24: a second exit on a session that has exited raises no error and leaves
\* every binding of the real scope at its pre-entry value
C24_ExitIdempotent ==
    pc = "exited_again" => (raised = NoError /\ ScopeRestored)

\* the names forced in: the include set minus the identifier, path and
\* object-path excludes
ForceIncluded ==
    include_set \ (exclusion_sets.exclude_identifier_set
                   \cup exclusion_sets.exclude_path_set
                   \cup exclusion_sets.exclude_object_path_set)

\* what the target gets when it evaluates the global name nm under bindings h
LoadGlobal(h, nm) ==
    IF Getattr(h, Module, nm) = Absent THEN V("NameError", <<nm>>, 0)
    ELSE Getattr(h, Module, nm)

\* C25: entry adds no name to the real scope but those forced in: a name the
\* scope did not define and that is not forced in is undefined in the active
\* session, so evaluating it is a name-resolution error and not a stand-in
C25_NoNameAdded ==
    pc = "active" =>
        \A nm \in TopNames :
            (pre[Loc(Module, nm)] = Absent /\ Str(<<nm>>) \notin ForceIncluded)
                => /\ LoadGlobal(heap, nm).t = "NameError"
                   /\ ~IsStandIn(LoadGlobal(heap, nm))

\* an active session whose only include of an undefined name is excluded, next
\* to one that was never included
C25_Witness ==
    /\ pc = "active"
    /\ Str(<<"id">>) \in include_set /\ Str(<<"id">>) \in exclude_set
    /\ LoadGlobal(heap, "id").t = "NameError"
    /\ LoadGlobal(heap, "NoSuch").t = "NameError"
    /\ \E nm \in TopNames : IsStandIn(LoadGlobal(heap, nm))

\* C26: a name of the include set that is not excluded is bound to a stand-in
\* in the active session even when the scope binds it to an exception class
C26_IncludedExceptionSubstituted ==
    pc = "active" =>
        \A nm \in ExceptionNames :
            Str(<<nm>>) \in ForceIncluded =>
                /\ IsStandIn(Getattr(heap, Module, nm))
                /\ pre[Loc(Module, nm)] = Real(<<nm>>)

\* an active session that force-includes the exception class of the scope
C26_Witness ==
    /\ pc = "active"
    /\ Str(<<"SomeException">>) \in ForceIncluded
    /\ Getattr(heap, Module, "SomeException").t = "fresh"

\* the top-level name through which the scope reaches the target: the target's
\* own name, or the outermost class that encloses it
TargetTopName == Head(Qualname(func))

\* the target is a function of the scope or a method of one of its classes
IsFunctionOrMethodTarget == Len(Qualname(func)) > 1 \/ ~is_class_method(func)

\* C27 as stated: at every point of an active session the scope binds the
\* target's top-level name (the free function itself, or the outermost class
\* enclosing the method) to the identical original object
C27_TargetUntouched ==
    (pc = "active" /\ IsFunctionOrMethodTarget) =>
        Getattr(heap, Module, TargetTopName) = Real(<<TargetTopName>>)

\* C27 amended: the same, provided that name is not forced in by the include set
C27_TargetUntouchedUnlessIncluded ==
    (pc = "active" /\ IsFunctionOrMethodTarget
        /\ Str(<<TargetTopName>>) \notin ForceIncluded) =>
        /\ Getattr(heap, Module, TargetTopName) = Real(<<TargetTopName>>)
        /\ Getattr(heap, Module, TargetTopName) = pre[Loc(Module, TargetTopName)]

\* an active session on a method: its class is the original, a function of the
\* scope next to it is a stand-in
C27_Witness ==
    /\ pc = "active"
    /\ func = Real(<<"FirstClass", "success_method">>)
    /\ Str(<<"FirstClass">>) \notin ForceIncluded
    /\ Getattr(heap, Module, "FirstClass") = Real(<<"FirstClass">>)
    /\ IsStandIn(Getattr(heap, Module, "success_function"))

\* the top-level names the exclude set protects: a bare identifier, the first
\* segment of a dotted path, the first segment of an object's qualified path
ExcludedTopNames ==
    {nm \in TopNames :
        \E e \in exclude_set :
            \/ IsString(e) /\ Head(e.p) = nm
            \/ ~IsString(e) /\ Head(Qualname(e)) = nm}

\* C28: every top-level name that is a bare-identifier exclude, or the first
\* segment of a dotted-path exclude or of an object exclude's qualified path,
\* keeps its pre-entry binding throughout the active session, unless it is
\* also forced in by the include set
C28_ExcludedNamesKeepBinding ==
    pc = "active" =>
        \A nm \in ExcludedTopNames :
            Str(<<nm>>) \notin ForceIncluded =>
                Getattr(heap, Module, nm) = pre[Loc(Module, nm)]

\* an active session with a dotted-path exclude (string or object) whose first
\* segment is still the class, while the other names are stand-ins
C28_Witness ==
    /\ pc = "active"
    /\ \E e \in exclude_set : Len(e.p) > 1 /\ Head(e.p) \in {"FirstClass", "InitCase"}
           /\ Getattr(heap, Module, Head(e.p)) = Real(<<Head(e.p)>>)
           /\ func.p[1] # Head(e.p)
    /\ IsStandIn(Getattr(heap, Module, "failed_function"))

\* the names of the scope that start with the double underscore
ReservedTopNames == {"__name__"}

\* C29: a reserved-prefix name of the scope is substituted by entry only if it
\* is in the include set and not excluded; every other reserved-prefix name
\* keeps its pre-entry binding throughout the session
C29_ReservedNamesKept ==
    pc = "active" =>
        \A nm \in ReservedTopNames :
            Getattr(heap, Module, nm) # pre[Loc(Module, nm)]
                => (Str(<<nm>>) \in include_set /\ Str(<<nm>>) \notin exclude_set)

\* active sessions exist in which the reserved name is included and substituted
C29_Witness ==
    /\ pc = "active"
    /\ Str(<<"__name__">>) \in include_set
    /\ IsStandIn(Getattr(heap, Module, "__name__"))
    /\ pre[Loc(Module, "__name__")] = Real(<<"__name__">>)

\* C30: within one session no name of the real scope is substituted more than
\* once, and no substitution recorded against the real scope has a stand-in as
\* its saved original, whatever the include set
C30_NeverDoubleWrap ==
    pc = "active" =>
        /\ \A i, j \in DOMAIN patchers :
               (patchers[i].target = Module /\ patchers[j].target = Module
                   /\ patchers[i].attribute = patchers[j].attribute) => i = j
        /\ \A i \in DOMAIN patchers :
               patchers[i].target = Module => ~IsStandIn(patchers[i].temp_original)

\* the enclosing segments of the target's qualified path
EnclosingSegments == Front(Qualname(func))

InitializerName == "__init__"

\* the shadow parent of an exclude path under the bindings h
ShadowParent(h, e) == GetattrByPath(h, Shadow(<<>>), Front(e.p))

\* C32: after entry, for a path or object exclude whose final segment is not
\* the initializer name the leaf attribute on the shadow parent is the real
\* original object and no exclusion bundle exists for it; a final segment that
\* is the initializer name is installed under the alternate name and has a bundle
C32_LeafExclude ==
    pc = "active" =>
        \A e \in AllExcludeSet(exclusion_sets) :
            IF Last(e.p) # InitializerName
            THEN /\ Getattr(heap, ShadowParent(heap, e), Last(e.p)) = Real(e.p)
                 /\ e \notin DOMAIN rp.exclusions
                 /\ Real(e.p) \notin DOMAIN rp.exclusions
            ELSE /\ Getattr(heap, ShadowParent(heap, e), "m" \o InitializerName) = Real(e.p)
                 /\ e \in DOMAIN rp.exclusions

\* the raw exclude set has been normalised
Normalised == pc \in {"idle", "active", "enter_failed", "exited", "exited_again"}

\* C33: normalising a raw exclude set partitions it: every entry is in exactly
\* one of the identifier excludes (string without separator), the path
\* excludes (string with separator) and the object excludes (non-string); the
\* first-path-identifier set is the set of first segments of the path excludes
\* and the first-object-path-identifier set that of the object excludes'
\* qualified paths
C33_ExcludePartition ==
    Normalised =>
        LET es == exclusion_sets IN
        /\ es.exclude_identifier_set \cup es.exclude_path_set \cup es.exclude_object_set
              = exclude_set
        /\ es.exclude_identifier_set \cap es.exclude_path_set = {}
        /\ es.exclude_identifier_set \cap es.exclude_object_set = {}
        /\ es.exclude_path_set \cap es.exclude_object_set = {}
        /\ \A e \in es.exclude_identifier_set : e.t = "str" /\ Len(e.p) = 1
        /\ \A e \in es.exclude_path_set : e.t = "str" /\ Len(e.p) > 1
        /\ \A e \in es.exclude_object_set : e.t # "str"
        /\ es.exclude_first_path_identifier_set
              = {Str(<<Head(e.p)>>) : e \in es.exclude_path_set}
        /\ es.exclude_first_object_path_identifier_set
              = {Str(<<Head(Qualname(o))>>) : o \in es.exclude_object_set}

\* a normalised exclude set with bare identifiers next to a dotted path or an object
C33_Witness ==
    /\ pc = "idle"
    /\ exclusion_sets.exclude_identifier_set # {}
    /\ exclusion_sets.exclude_first_path_identifier_set
          \cup exclusion_sets.exclude_first_object_path_identifier_set
          = {Str(<<"InitCase">>)}

\* C34: a handle that has exited is not made active again: a second entry
\* applies no substitution to the real scope, and none is left after the exit
\* that follows it
C34_NoReentry ==
    pc \in {"reentered", "reenter_failed", "reexited"} => ScopeRestored

\* the leveled methods of the logger are the logger's own
LoggerRestored ==
    \A m \in Range(LoggerMethods) :
        Getattr(heap, TheLogger, m) = Getattr(EmptyMap, TheLogger, m)

\* C35: when Rcl.__enter__ fails after the base entry applied its
\* substitutions (the target raises, a log call fails template verification),
\* the logger patches and then the scope substitutions are reversed, so scope
\* and logger equal their pre-entry values when the error reaches the caller
C35_RclFailureRestores ==
    (variant = "Rcl" /\ pc = "enter_failed" /\ raised \in TargetRaises \cup {"TypeError"})
        => (ScopeRestored /\ LoggerRestored)

C37_IndexMapBijection ==
    /\ Len(ak.vals) = Len(ak_names)
    /\ DOMAIN ak.index_map = Range(ak_names)
    /\ Cardinality(DOMAIN ak.index_map) = Len(ak.vals)
    /\ \A i \in DOMAIN ak_names : ak.index_map[ak_names[i]] = i - 1

\* C38: for the first-generation engine, for every target and every
\* include/exclude specification, after __enter__ followed by __exit__ every
\* binding of the real scope equals its value before entry.
C38_Gen1RoundTrip == (variant = Gen1Variant /\ pc = "exited") => ScopeRestored

====
